---- MODULE Spec2Model ----
(***************************************************************************)
(* Model of the stdin/stdout request bridge of sveltekit-adapter-cli:      *)
(* the Readline line splitter, the static file resolver (serveStatic,      *)
(* parseRange, lookup), the inbound command handler (handle), the          *)
(* dispatcher (serve / firstResolve), the response serializer              *)
(* (writeResponse / writeOut) and the waitUntil drain before process.exit. *)
(***************************************************************************)
EXTENDS Integers, Sequences, FiniteSets, TLC

VARIABLES
    buff,       \* Readline.#buff: bytes received after the last LF
    lines,      \* the 'line' events emitted so far, in order (decoded strings)
    fed,        \* every byte written to the Readline so far, in order
    cuts,       \* the lengths of fed at which a _write call ended (chunk boundaries)
    options,    \* HandleOptions: method, url (pathname, search), clientIP, static
    headers,    \* the request Headers built from the inbound header commands
    sres,       \* the last serveStatic call: its base directory and what it returned
    \* the 'line' handler of handle()
    nHeaders,   \* how many inbound header commands have been appended
    bodyStart,  \* let bodyStart
    aborted,    \* abort.signal.aborted
    pipe,       \* the PassThrough feeding the request body: chunks written, ended,
                \* and the writes attempted after it was ended
    req,        \* the Request constructed at start-body: <<>> before, then <<request>>
    seenEnd,    \* an inbound end-body has been received
    seenAbort,  \* the phases ("headers": before start-body, "body": after it) in
                \* which an inbound abort was received before any end-body
    served,     \* how many times serve(req, options) has been called
    strayed,    \* a header or start-body command was received after start-body
    lateData,   \* the data commands received after such an abort: whether one was
                \* offered after an abort in the body phase, and whether the
                \* handler called pipe.write for one (after any / after a body abort)
    \* serve() / firstResolve()
    dpc,        \* where the dispatcher stands
    cand,       \* the candidate whose result firstResolve is awaiting
    cres,       \* that candidate's result
    tried,      \* the candidates invoked so far, in order
    clientAddr, \* what getClientAddress() did for the server.respond call in progress
    \* writeResponse() / writeOut()
    res,        \* the Response being serialized
    wpc,        \* which write (or read) writeResponse is awaiting
    hidx,       \* the index i into the flattened header array
    out,        \* the commands written to stdout so far, in order
    acked,      \* how many of them process.stdout.write has called back for
    remaining,  \* the bytes the response body stream has not delivered yet
    \* waitUntil and the finally block
    waits,      \* the promises registered through waitUntil
    settled,    \* those of them that have settled
    snapshot,   \* the promises Promise.allSettled(waits) was called with
    phase,      \* "running", "draining" (awaiting allSettled) or "exited"
    logged,     \* what console.error has written to stderr
    exitCode,   \* the code given to process.exit, -1 before
    exits       \* how many times process.exit has been called

rlVars == <<buff, lines, fed, cuts>>
reqVars == <<options, headers>>
inVars == <<nHeaders, bodyStart, aborted, pipe, req, seenEnd, seenAbort, served, strayed, lateData>>
dispVars == <<dpc, cand, cres, tried, clientAddr>>
outVars == <<res, wpc, hidx, out, acked, remaining>>
lifeVars == <<waits, settled, snapshot, phase, logged, exitCode, exits>>
procVars == <<inVars, dispVars, outVars, lifeVars>>

vars == <<rlVars, reqVars, sres, procVars>>

NotAsked == [asked |-> FALSE, threw |-> FALSE, value |-> <<>>]

\* handle() has run: nothing received, nothing dispatched, nothing written
ProcInit ==
    /\ nHeaders = 0 /\ bodyStart = FALSE /\ aborted = FALSE
    /\ pipe = [chunks |-> <<>>, ended |-> FALSE, lateWrites |-> 0]
    /\ req = <<>>
    /\ seenEnd = FALSE /\ seenAbort = {} /\ served = 0 /\ strayed = FALSE
    /\ lateData = [offered |-> FALSE, writtenAny |-> FALSE, writtenBody |-> FALSE]
    /\ dpc = "idle" /\ cand = "none" /\ cres = [kind |-> "none"] /\ tried = <<>>
    /\ clientAddr = NotAsked
    /\ res = [kind |-> "none"] /\ wpc = "idle" /\ hidx = 0 /\ out = <<>>
    /\ acked = 0
    /\ remaining = <<>>
    /\ waits = {} /\ settled = {} /\ snapshot = {}
    /\ phase = "running" /\ logged = [errors |-> 0, rejections |-> {}]
    /\ exitCode = -1 /\ exits = 0

(***************************************************************************)
(* Bounds                                                                  *)
(***************************************************************************)
MaxChunkLen == 2    \* longest chunk written to the Readline in one _write
MaxFed == 4         \* most bytes written to the Readline in one behaviour
MaxRangeNum == 11   \* largest number written in a range header

(***************************************************************************)
(* Generic helpers                                                         *)
(***************************************************************************)
RECURSIVE SeqsUpTo(_, _)
SeqsUpTo(S, n) ==
    IF n = 0 THEN {<<>>}
    ELSE LET shorter == SeqsUpTo(S, n - 1)
         IN  shorter \cup {Append(s, x) : s \in shorter, x \in S}

\* Buffer.subarray(from, to) with 0-based, end-exclusive indices
subarray(b, from, to) == SubSeq(b, from + 1, to)

RECURSIVE indexOfFrom(_, _, _)
indexOfFrom(b, x, i) ==
    IF i > Len(b) THEN -1
    ELSE IF b[i] = x THEN i - 1
    ELSE indexOfFrom(b, x, i + 1)

\* Buffer.indexOf(x): 0-based position of the first x, -1 when absent
indexOf(b, x) == indexOfFrom(b, x, 1)

(***************************************************************************)
(* Readline (src/unnamed/part_000)                                         *)
(***************************************************************************)
LF == 10

\* The bytes the model writes: LF, 'a', and the two bytes of U+00E9 (0xC3 0xA9),
\* which also occur alone as malformed UTF-8.
Bytes == {LF, 97, 195, 169}

ReplacementChar == 65533

\* Buffer.toString('utf8') for one- and two-byte sequences, with U+FFFD for a
\* byte that starts or continues nothing. (Lead bytes >= 0xE0 are not in Bytes.)
RECURSIVE toStringUtf8(_)
toStringUtf8(b) ==
    IF b = <<>> THEN <<>>
    ELSE IF b[1] < 128 THEN <<b[1]>> \o toStringUtf8(Tail(b))
    ELSE IF b[1] >= 194 /\ b[1] <= 223 /\ Len(b) >= 2
            /\ b[2] >= 128 /\ b[2] <= 191
         THEN <<(b[1] - 192) * 64 + (b[2] - 128)>> \o toStringUtf8(Tail(Tail(b)))
    ELSE <<ReplacementChar>> \o toStringUtf8(Tail(b))

\* A variant that drops nothing: emits the zero-length lines too.
EmitLineAll(acc, line) == Append(acc, toStringUtf8(line))

\* if (buff.length) this.emit('line', buff.toString('utf8'))
EmitLine(acc, line) ==
    IF Len(line) > 0 THEN Append(acc, toStringUtf8(line)) ELSE acc

\* the while (lf >= 0) loop of _write over the concatenated buffer
RECURSIVE SplitLoop(_, _)
SplitLoop(b, acc) ==
    LET lf == indexOf(b, LF)
    IN  IF lf >= 0
        THEN SplitLoop(subarray(b, lf + 1, Len(b)), EmitLine(acc, subarray(b, 0, lf)))
        ELSE [buff |-> b, emitted |-> acc]

\* A variant that forgets the buffered tail of the previous chunk.
ReadlineWriteNoConcat(b, chunk) == SplitLoop(chunk, <<>>)

\* Readline._write: this.#buff = Buffer.concat([this.#buff, chunk]), then split
ReadlineWrite(b, chunk) == SplitLoop(b \o chunk, <<>>)

RlInit ==
    /\ buff = <<>>
    /\ lines = <<>>
    /\ fed = <<>>
    /\ cuts = {}

\* one call of _write with an arbitrary chunk
Write ==
    \E chunk \in SeqsUpTo(Bytes, MaxChunkLen) :
        /\ Len(fed) + Len(chunk) <= MaxFed
        /\ LET r == ReadlineWrite(buff, chunk)
           IN  /\ buff' = r.buff
               /\ lines' = lines \o r.emitted
        /\ fed' = fed \o chunk
        /\ cuts' = cuts \cup {Len(fed) + Len(chunk)}

RlNext == Write /\ UNCHANGED <<options, headers, sres, procVars>>

\* values of the variables a specification does not use
NoOptions == [method |-> "GET", url |-> [pathname |-> <<"/">>, search |-> <<>>],
              clientIP |-> <<>>, static |-> TRUE]
NoHeaders == <<>>
NoResult == [base |-> <<>>, res |-> [kind |-> "none"]]

LineInit ==
    /\ RlInit
    /\ options = NoOptions
    /\ headers = NoHeaders
    /\ sres = NoResult
    /\ ProcInit

SpecLine == LineInit /\ [][RlNext]_vars

(***************************************************************************)
(* Readline properties                                                     *)
(***************************************************************************)
Max(S) == CHOOSE x \in S : \A y \in S : y <= x

NlPos(s) == {i \in 1..Len(s) : s[i] = LF}

\* the bytes between the previous LF (or the start) and the LF at position i
SegmentEndingAt(s, i) ==
    LET prev == {j \in NlPos(s) : j < i}
        start == IF prev = {} THEN 1 ELSE Max(prev) + 1
    IN  SubSeq(s, start, i - 1)

RECURSIVE SegmentsFrom(_, _)
SegmentsFrom(s, i) ==
    IF i > Len(s) THEN <<>>
    ELSE IF s[i] = LF THEN <<SegmentEndingAt(s, i)>> \o SegmentsFrom(s, i + 1)
    ELSE SegmentsFrom(s, i + 1)

\* every LF-terminated segment of s, in order, the empty ones included
TerminatedSegments(s) == SegmentsFrom(s, 1)

\* the bytes of s after its last LF
Unterminated(s) ==
    IF NlPos(s) = {} THEN s ELSE SubSeq(s, Max(NlPos(s)) + 1, Len(s))

DecodeAll(segs) == [i \in 1..Len(segs) |-> toStringUtf8(segs[i])]

NonEmpty(seg) == Len(seg) > 0

\* C5: however the bytes written so far were split into chunks, the lines
\* emitted (and the bytes left buffered) are those of writing all of them as
\* one single chunk to a fresh Readline.
C5_ChunkIndependence ==
    LET whole == ReadlineWrite(<<>>, fed)
    IN  /\ lines = whole.emitted
        /\ buff = whole.buff

\* C5 witness: a chunk boundary fell inside a line, between the two bytes of
\* one character, another chunk held several LFs, and lines were emitted.
C5_Witness ==
    /\ \E c \in cuts : c >= 1 /\ c < Len(fed) /\ fed[c] = 195 /\ fed[c + 1] = 169
    /\ \E c \in cuts : c >= 2 /\ fed[c] = LF /\ fed[c - 1] = LF /\ (c - 1) \notin cuts
    /\ Len(lines) >= 1

\* C6 as claimed: the lines emitted are all LF-terminated segments of the
\* input, the zero-length ones included.
C6_AllSegmentsEmitted == lines = DecodeAll(TerminatedSegments(fed))

\* C6 amended: the lines emitted are, in order, the non-empty LF-terminated
\* segments of the input (delimiter excluded); the bytes after the last LF are
\* not emitted and are exactly what stays buffered.
C6_NonEmptySegmentsEmitted ==
    /\ lines = DecodeAll(SelectSeq(TerminatedSegments(fed), NonEmpty))
    /\ buff = Unterminated(fed)

\* C6 witness: the input held an empty segment and a non-empty one, a line was
\* emitted, and an unterminated tail is buffered.
C6_Witness ==
    /\ \E i \in 1..Len(TerminatedSegments(fed)) : TerminatedSegments(fed)[i] = <<>>
    /\ Len(lines) >= 1
    /\ Len(buff) >= 1

(***************************************************************************)
(* Strings.  A string is a sequence of tokens; a token is one character or *)
(* a fixed run of characters ("bytes=", ".html", "foo") that the code only *)
(* ever treats as a whole.                                                 *)
(***************************************************************************)
DigitChars == <<"0", "1", "2", "3", "4", "5", "6", "7", "8", "9">>

IsDigit(c) == \E d \in 1..10 : DigitChars[d] = c

DigitValue(c) == (CHOOSE d \in 1..10 : DigitChars[d] = c) - 1

\* Number.prototype.toString() / template interpolation of a non-negative integer
RECURSIVE Str(_)
Str(n) == IF n < 10 THEN <<DigitChars[n + 1]>>
          ELSE Str(n \div 10) \o <<DigitChars[(n % 10) + 1]>>

\* unary plus on a string of decimal digits
RECURSIVE ToNumber(_)
ToNumber(ds) == IF ds = <<>> THEN 0
                ELSE ToNumber(SubSeq(ds, 1, Len(ds) - 1)) * 10 + DigitValue(ds[Len(ds)])

\* a nullable number: <<>> is null, <<n>> is the number n
Null == <<>>
Num(n) == <<n>>

\* JavaScript truthiness of a nullable number (null, 0 and -0 are falsy)
Truthy(v) == v # Null /\ v[1] # 0

(***************************************************************************)
(* Headers                                                                 *)
(***************************************************************************)
HeadersHas(h, k) == k \in DOMAIN h

\* Headers.get: null (here <<>>) when absent
HeadersGet(h, k) == IF k \in DOMAIN h THEN h[k] ELSE <<>>

HeadersSet(h, k, v) == [x \in (DOMAIN h) \cup {k} |-> IF x = k THEN v ELSE h[x]]

\* Headers.append: a repeated name has its values joined with ", "
HeadersAppend(h, k, v) ==
    IF k \in DOMAIN h THEN HeadersSet(h, k, h[k] \o <<", ">> \o v) ELSE HeadersSet(h, k, v)

(***************************************************************************)
(* The file system the worker runs on: regular files under the two base    *)
(* directories, each with size, mtimeMs and content.  A file path is the   *)
(* sequence of its segments, a segment the sequence of its tokens.         *)
(***************************************************************************)
FileBytes(n) == [i \in 1..n |-> (i * 37) % 256]

Files == {
    [path |-> <<<<"client">>, <<"a", ".txt">>>>,                size |-> 10, mtimeMs |-> 7],
    [path |-> <<<<"client">>, <<"a", ".txt", ".gz">>>>,         size |-> 6,  mtimeMs |-> 8],
    [path |-> <<<<"client">>, <<"a", ".txt", ".br">>>>,         size |-> 5,  mtimeMs |-> 8],
    [path |-> <<<<"client">>, <<"foo">>, <<"index", ".html">>>>, size |-> 3,  mtimeMs |-> 9],
    [path |-> <<<<"prerendered">>, <<"about", ".html">>>>,      size |-> 4,  mtimeMs |-> 5],
    [path |-> <<<<"prerendered">>, <<"index", ".html">>>>,      size |-> 2,  mtimeMs |-> 5]
}

Directories == {
    <<<<"client">>>>, <<<<"client">>, <<"foo">>>>, <<<<"prerendered">>>>
}

\* the segments of a path string: split at "/", empty segments dropped (the
\* kernel treats repeated separators as one)
RECURSIVE SegmentsOf(_, _)
SegmentsOf(str, cur) ==
    IF str = <<>> THEN (IF cur = <<>> THEN <<>> ELSE <<cur>>)
    ELSE IF str[1] = "/"
         THEN (IF cur = <<>> THEN <<>> ELSE <<cur>>) \o SegmentsOf(Tail(str), <<>>)
         ELSE SegmentsOf(Tail(str), Append(cur, str[1]))

EndsWithSlash(str) == Len(str) > 0 /\ str[Len(str)] = "/"

\* fs.existsSync
existsSync(path) ==
    LET segs == SegmentsOf(path, <<>>)
    IN  \/ segs \in Directories
        \/ (~EndsWithSlash(path) /\ \E f \in Files : f.path = segs)

\* statFile: the Stats of a regular file, or undefined (here <<>>)
statFile(path) ==
    LET segs == SegmentsOf(path, <<>>)
        hit == {f \in Files : f.path = segs}
    IN  IF ~existsSync(path) THEN <<>>
        ELSE IF hit = {} THEN <<>>
        ELSE <<CHOOSE f \in hit : TRUE>>

tryFiles == <<<<".html">>, <<".htm">>, <<"/", "index", ".html">>, <<"/", "index", ".htm">>>>

RECURSIVE lookupTry(_, _)
lookupTry(path, i) ==
    IF i > Len(tryFiles) THEN [path |-> <<>>, stats |-> <<>>]
    ELSE LET tryFile == path \o tryFiles[i]
             stats == statFile(tryFile)
         IN  IF stats # <<>> THEN [path |-> tryFile, stats |-> stats]
             ELSE lookupTry(path, i + 1)

\* lookup: the path itself, then each of tryFiles appended to it
lookup(path) ==
    LET stats == statFile(path)
    IN  IF stats # <<>> THEN [path |-> path, stats |-> stats]
        ELSE lookupTry(path, 1)

\* path.normalize (posix) on a path without "." or ".." segments: runs of
\* separators become one separator, a trailing separator is kept
RECURSIVE normalize(_)
normalize(str) ==
    IF str = <<>> THEN <<>>
    ELSE IF str[1] = "/" /\ Len(str) >= 2 /\ str[2] = "/" THEN normalize(Tail(str))
    ELSE <<str[1]>> \o normalize(Tail(str))

\* decodeURIComponent on one token: the escape %61 is the letter a
DecodesTo(tok) == IF tok = "%61" THEN "a" ELSE tok

\* a "%" that starts no escape makes decodeURIComponent throw URIError
MalformedURI(str) == \E i \in 1..Len(str) : str[i] = "%"

\* decodeURIComponent of a well-formed string
decodeURIComponent(str) == [i \in 1..Len(str) |-> DecodesTo(str[i])]

\* .replace(/^\/$/, '')
StripLoneSlash(str) == IF str = <<"/">> THEN <<>> ELSE str

\* new URL(ref, base).toString(), without the origin: a reference that starts
\* with "/" replaces path and query; an empty reference or a bare query keeps
\* the base path
ResolveUrl(path, search, base) ==
    IF path # <<>> THEN path \o search
    ELSE base.pathname \o (IF search # <<>> THEN search ELSE base.search)

\* Bun.file(path).type, from the file extension
ContentType(path) ==
    LET ext == path[Len(path)]
    IN  IF ext \in {".html", ".htm"} THEN <<"text/html;charset=utf-8">>
        ELSE IF ext = ".txt" THEN <<"text/plain;charset=utf-8">>
        ELSE <<"application/octet-stream">>

FileAt(path) == CHOOSE f \in Files : f.path = SegmentsOf(path, <<>>)

\* Bun.file(path).slice(start, end): bytes start .. end-1 of the file
FileSlice(path, start, end) == SubSeq(FileBytes(FileAt(path).size), start + 1, end)

appDir == <<"_app">>

IgnoreFiles == <<>>     \* env.IGNORE_FILES is not set

StartsWith(str, pre) == Len(str) >= Len(pre) /\ SubSeq(str, 1, Len(pre)) = pre

(***************************************************************************)
(* parseRange and serveStatic (src/src/index.ts)                           *)
(***************************************************************************)
\* the longest run of digits at the start of str
RECURSIVE LeadingDigits(_)
LeadingDigits(str) ==
    IF str # <<>> /\ IsDigit(str[1]) THEN <<str[1]>> \o LeadingDigits(Tail(str)) ELSE <<>>

\* /^bytes=(?:(\d+)\-(\d+)?|(\-\d+))/.exec(range): the three groups, <<>> for
\* a group that did not take part; ok is FALSE when there is no match.  The
\* expression is not anchored at the end: whatever follows is not looked at.
RangeRegexExec(range) ==
    LET noMatch == [ok |-> FALSE, g1 |-> <<>>, g2 |-> <<>>, g3 |-> <<>>]
    IN  IF range = <<>> \/ range[1] # "bytes=" THEN noMatch
        ELSE LET rest == Tail(range)
                 d1 == LeadingDigits(rest)
                 after1 == SubSeq(rest, Len(d1) + 1, Len(rest))
             IN  IF d1 # <<>> /\ after1 # <<>> /\ after1[1] = "-"
                 THEN [ok |-> TRUE, g1 |-> d1, g2 |-> LeadingDigits(Tail(after1)),
                       g3 |-> <<>>]
                 ELSE IF rest # <<>> /\ rest[1] = "-" /\ LeadingDigits(Tail(rest)) # <<>>
                 THEN [ok |-> TRUE, g1 |-> <<>>, g2 |-> <<>>,
                       g3 |-> <<"-">> \o LeadingDigits(Tail(rest))]
                 ELSE noMatch

\* A variant that reads the suffix length without its sign.
parseRangeUnsignedSuffix(header) ==
    IF ~HeadersHas(header, "range") THEN <<Null, Null>>
    ELSE LET match == RangeRegexExec(HeadersGet(header, "range"))
         IN  IF ~match.ok THEN <<Null, Null>>
             ELSE IF match.g3 # <<>> THEN <<Num(ToNumber(Tail(match.g3))), Null>>
             ELSE <<Num(ToNumber(match.g1)),
                    IF match.g2 # <<>> THEN Num(ToNumber(match.g2) + 1) ELSE Null>>

\* parseRange: [start, end], each a number or null
parseRange(header) ==
    IF ~HeadersHas(header, "range") THEN <<Null, Null>>
    ELSE LET match == RangeRegexExec(HeadersGet(header, "range"))
         IN  IF ~match.ok THEN <<Null, Null>>
             ELSE IF match.g3 # <<>> THEN <<Num(0 - ToNumber(Tail(match.g3))), Null>>
             ELSE <<Num(ToNumber(match.g1)),
                    IF match.g2 # <<>> THEN Num(ToNumber(match.g2) + 1) ELSE Null>>

Undefined == [kind |-> "undefined"]

\* the call threw instead of returning
Thrown == [kind |-> "throw"]

\* new Response(body, {status, headers}); body is <<>> (null) or <<bytes>>
Response(body, status, hdrs) ==
    [kind |-> "response", status |-> status, statusText |-> <<>>,
     headers |-> hdrs, body |-> body]

\* glob.match(candidate) for the literal patterns of IGNORE_FILES
Ignored(normalized) ==
    \E i \in 1..Len(IgnoreFiles) :
        IgnoreFiles[i] = (IF normalized = <<>> THEN <<>> ELSE Tail(normalized))

\* serveStatic from the range header on (the request has a range header)
RangeResponse(request, resolvedPath, stats, hdrs) ==
    LET parsed == parseRange(request.headers)
        rangeStart == parsed[1]
        rangeEnd == parsed[2]
        unsatisfiable ==
            Response(Null, 416,
                HeadersSet(HeadersSet(hdrs, "content-range",
                               <<"bytes */">> \o Str(stats.size)),
                           "content-length", <<"0">>))
    IN  IF ~Truthy(rangeStart) THEN unsatisfiable
        ELSE LET startBytes == IF rangeStart[1] < 0 THEN stats.size + rangeStart[1]
                               ELSE rangeStart[1]
                 endBytes == IF rangeStart[1] < 0 THEN stats.size
                             ELSE IF Truthy(rangeEnd) THEN rangeEnd[1] + 1
                             ELSE stats.size
             IN  IF endBytes <= startBytes \/ startBytes < 0 \/ endBytes > stats.size
                 THEN unsatisfiable
                 ELSE Response(<<FileSlice(resolvedPath, startBytes, endBytes)>>, 206,
                        HeadersSet(HeadersSet(HeadersSet(hdrs,
                            "content-range",
                                <<"bytes ">> \o Str(startBytes) \o <<"-">>
                                    \o Str(endBytes - 1) \o <<"/">> \o Str(stats.size)),
                            "content-length", Str(endBytes - startBytes)),
                            "accept-range", <<"bytes">>))

\* serveStatic from the cache-control header on (no range header)
EncodingResponse(request, normalized, resolvedPath, hdrs0, cache) ==
    LET hdrs == IF cache
                THEN HeadersSet(hdrs0, "cache-control",
                        IF StartsWith(normalized,
                               <<"/">> \o appDir \o <<"/", "immutable", "/">>)
                        THEN <<"public,max-age=604800,immutable">>
                        ELSE <<"public,max-age=14400">>)
                ELSE hdrs0
        whole == FileSlice(resolvedPath, 0, FileAt(resolvedPath).size)
        ac == HeadersGet(request.headers, "accept-encoding")
        gz == resolvedPath \o <<".gz">>
        br == resolvedPath \o <<".br">>
        includes(str, tok) == \E i \in 1..Len(str) : str[i] = tok
    IN  IF ~HeadersHas(request.headers, "accept-encoding")
        THEN Response(<<whole>>, 200, hdrs)
        ELSE IF existsSync(gz) /\ includes(ac, "gzip")
        THEN Response(<<FileSlice(gz, 0, FileAt(gz).size)>>, 200,
                 HeadersSet(HeadersSet(hdrs, "content-length", Str(FileAt(gz).size)),
                            "content-encoding", <<"gzip">>))
        ELSE IF existsSync(br) /\ includes(ac, "br")
        THEN Response(<<FileSlice(br, 0, FileAt(br).size)>>, 200,
                 HeadersSet(hdrs, "content-encoding", <<"br">>))
        ELSE Response(<<whole>>, 200, hdrs)

Etag(stats) == <<"W/">> \o Str(stats.size) \o <<"-">> \o Str(stats.mtimeMs)

serveStatic(request, opts, basePath, cache) ==
    IF ~existsSync(basePath) THEN Undefined
    ELSE IF request.method # "GET" /\ request.method # "HEAD" THEN Undefined
    ELSE IF MalformedURI(opts.url.pathname) THEN Thrown
    ELSE LET normalized ==
                 StripLoneSlash(normalize(decodeURIComponent(opts.url.pathname)))
             found == lookup(basePath \o normalized)
         IN  IF Ignored(normalized) THEN Undefined
             ELSE IF found.stats = <<>> THEN Undefined
             ELSE IF opts.url.pathname # <<"/">> /\ EndsWithSlash(opts.url.pathname)
             THEN Response(Null, 302,
                      HeadersSet(<<>>, "location",
                          ResolveUrl(normalized, opts.url.search, opts.url)))
             ELSE LET stats == found.stats[1]
                      etag == Etag(stats)
                      hdrs == HeadersSet(HeadersSet(HeadersSet(HeadersSet(<<>>,
                                  "content-type", ContentType(found.path)),
                                  "content-length", Str(stats.size)),
                                  "last-modified", <<"utc:">> \o Str(stats.mtimeMs)),
                                  "etag", etag)
                  IN  IF HeadersGet(request.headers, "if-non-match") = etag
                      THEN Response(Null, 304, <<>>)
                      ELSE IF HeadersHas(request.headers, "range")
                      THEN RangeResponse(request, found.path, stats, hdrs)
                      ELSE EncodingResponse(request, normalized, found.path, hdrs, cache)

(***************************************************************************)
(* serveStatic on its own: any request the handler can build, against      *)
(* either base directory, as serve() calls it.                             *)
(***************************************************************************)
Methods == {"GET", "HEAD", "POST"}

Pathnames == {
    <<"/">>, <<"/", "/">>,
    <<"/", "a", ".txt">>, <<"/", "%61", ".txt">>, <<"/", "%">>,
    <<"/", "foo">>, <<"/", "foo", "/">>, <<"/", "foo", "/", "/">>,
    <<"/", "foo", "/", "index", ".html">>,
    <<"/", "about">>, <<"/", "about", "/">>,
    <<"/", "missing">>
}

Searches == {<<>>, <<"?q=1">>}

RangeNums == 0..MaxRangeNum

RangeValues ==
    {<<"bytes=">> \o Str(a) \o <<"-">> \o Str(b) : a \in RangeNums, b \in RangeNums}
    \cup {<<"bytes=">> \o Str(a) \o <<"-">> : a \in RangeNums}
    \cup {<<"bytes=", "-">> \o Str(n) : n \in RangeNums}
    \cup {<<"bytes=">>, <<"bytes=", "-">>, <<"bytes=", "x">>, <<"items=", "0", "-", "1">>,
          <<"bytes=", "1", "-", "2", "x">>, <<"bytes=", "0", "-", "1", ",", "3", "-", "4">>}

EtagValues == {Etag(f) : f \in Files} \cup {<<"W/", "0", "-", "0">>}

EncodingValues == {<<"gzip">>, <<"br">>, <<"gzip", ", ", "br">>, <<"identity">>}

\* a request header collection with the given names chosen among the values
WithHeader(hs, k, vals) == hs \cup {HeadersSet(h, k, v) : h \in hs, v \in vals}

HeaderSets ==
    WithHeader({HeadersSet(<<>>, "range", r) : r \in RangeValues},
               "if-non-match", {Etag(f) : f \in {g \in Files : g.size = 10}})
    \cup WithHeader(WithHeader(WithHeader({<<>>},
               "accept-encoding", EncodingValues),
               "if-non-match", EtagValues),
               "if-none-match", EtagValues)

\* the Request that handle constructs at start-body
request == [method |-> options.method, headers |-> headers]

StaticInit ==
    /\ RlInit
    /\ options \in [method : Methods,
                    url : [pathname : Pathnames, search : Searches],
                    clientIP : {<<>>}, static : {TRUE}]
    /\ headers \in HeaderSets
    /\ sres = NoResult
    /\ ProcInit

clientDir == <<"/", "client">>
prerenderedDir == <<"/", "prerendered">>

\* () => serveStatic(request, options, base + '/client', true)
ServeClient ==
    /\ sres = NoResult
    /\ sres' = [base |-> clientDir, res |-> serveStatic(request, options, clientDir, TRUE)]
    /\ UNCHANGED <<rlVars, reqVars, procVars>>

\* () => serveStatic(request, options, base + '/prerendered', false)
ServePrerendered ==
    /\ sres = NoResult
    /\ sres' = [base |-> prerenderedDir,
                res |-> serveStatic(request, options, prerenderedDir, FALSE)]
    /\ UNCHANGED <<rlVars, reqVars, procVars>>

StaticNext == ServeClient \/ ServePrerendered

SpecStatic == StaticInit /\ [][StaticNext]_vars

(***************************************************************************)
(* serveStatic properties                                                  *)
(***************************************************************************)
Called == sres.res.kind # "none"

GetOrHead == options.method \in {"GET", "HEAD"}

\* the request path names the regular file f of the base directory itself
Names(f) ==
    /\ Called
    /\ ~EndsWithSlash(options.url.pathname)
    /\ SegmentsOf(sres.base \o options.url.pathname, <<>>) = f.path

ClosedRange(a, b) == <<"bytes=">> \o Str(a) \o <<"-">> \o Str(b)
OpenRange(a) == <<"bytes=">> \o Str(a) \o <<"-">>
SuffixRange(n) == <<"bytes=", "-">> \o Str(n)

ContentRange(a, b, size) ==
    <<"bytes ">> \o Str(a) \o <<"-">> \o Str(b) \o <<"/">> \o Str(size)

IsPartial(r, f, a, b) ==
    /\ r.kind = "response"
    /\ r.status = 206
    /\ HeadersGet(r.headers, "content-range") = ContentRange(a, b, f.size)
    /\ HeadersGet(r.headers, "content-length") = Str(b - a + 1)
    /\ r.body = <<SubSeq(FileBytes(f.size), a + 1, b + 1)>>

IsUnsatisfiable(r, f) ==
    /\ r.kind = "response"
    /\ r.status = 416
    /\ HeadersGet(r.headers, "content-range") = <<"bytes */">> \o Str(f.size)
    /\ HeadersGet(r.headers, "content-length") = <<"0">>
    /\ r.body = Null

\* C7: a GET/HEAD request for an existing file of size S with
\* range: bytes=a-b, 0 <= a <= b < S, gets 206 with content-range
\* bytes a-b/S, content-length b-a+1 and bytes a..b of the file as body.
C7_ClosedRangeIsPartial ==
    \A f \in Files : \A a \in RangeNums, b \in RangeNums :
        (/\ Names(f) /\ GetOrHead
         /\ a <= b /\ b < f.size
         /\ DOMAIN headers = {"range"}
         /\ headers["range"] = ClosedRange(a, b))
        => IsPartial(sres.res, f, a, b)

WellFormedRange(r) ==
    \/ \E a \in RangeNums, b \in RangeNums : r = ClosedRange(a, b)
    \/ \E a \in RangeNums : r = OpenRange(a)
    \/ \E n \in RangeNums : r = SuffixRange(n)

InvalidRange(r, size) ==
    \/ ~WellFormedRange(r)
    \/ \E a \in RangeNums, b \in RangeNums :
           r = ClosedRange(a, b) /\ (b < a \/ a >= size \/ b >= size)
    \/ \E n \in RangeNums : r = SuffixRange(n) /\ n > size

\* C8: a GET/HEAD request for an existing file of size S whose range header
\* is malformed or unsatisfiable (bytes=a-b with b < a, a >= S or b >= S;
\* bytes=-n with n > S) gets 416 with content-range bytes */S,
\* content-length 0 and no body, never 206.
C8_InvalidRangeIsUnsatisfiable ==
    \A f \in Files :
        (/\ Names(f) /\ GetOrHead
         /\ DOMAIN headers = {"range"}
         /\ InvalidRange(headers["range"], f.size))
        => IsUnsatisfiable(sres.res, f)

\* C9: a GET/HEAD request for an existing file of size S with
\* range: bytes=-n, 1 <= n <= S (and no if-non-match header naming the file's
\* etag, which is answered 304 before the range is looked at), gets 206 with
\* content-range bytes (S-n)-(S-1)/S, content-length n and the last n bytes.
C9_SuffixRangeIsPartial ==
    \A f \in Files : \A n \in RangeNums :
        (/\ Names(f) /\ GetOrHead
         /\ n >= 1 /\ n <= f.size
         /\ HeadersGet(headers, "range") = SuffixRange(n)
         /\ HeadersGet(headers, "if-non-match") # Etag(f))
        => IsPartial(sres.res, f, f.size - n, f.size - 1)

\* C9 witness: bytes=-3 on the 10-byte file was answered: bytes 7-9/10.
C9_Witness ==
    /\ \E f \in Files : Names(f) /\ f.size = 10
    /\ HeadersGet(headers, "range") = SuffixRange(3)
    /\ sres.res.kind = "response"
    /\ sres.res.status = 206
    /\ HeadersGet(sres.res.headers, "content-range") = <<"bytes ", "7", "-", "9", "/", "1", "0">>

\* the string without its last token
DropLast(str) == SubSeq(str, 1, Len(str) - 1)

\* C10: when a GET/HEAD request whose path is not "/" and ends with "/" is
\* matched by serveStatic, the answer is 302 with location = the request path
\* without its trailing slash, followed by the query string; the location's
\* path does not end in "/".
C10_TrailingSlashRedirectStrips ==
    (/\ Called /\ sres.res.kind = "response"
     /\ options.url.pathname # <<"/">>
     /\ EndsWithSlash(options.url.pathname))
    => /\ sres.res.status = 302
       /\ HeadersGet(sres.res.headers, "location")
              = DropLast(options.url.pathname) \o options.url.search
       /\ LET loc == HeadersGet(sres.res.headers, "location")
              path == IF options.url.search # <<>> THEN DropLast(loc) ELSE loc
          IN  ~EndsWithSlash(path)

\* the response carries a body that was read from a precompressed sibling
Precompressed(r) ==
    /\ r.kind = "response"
    /\ HeadersHas(r.headers, "content-encoding")
    /\ r.body # Null

\* C11: whenever serveStatic answers with content-encoding gzip or br, the
\* content-length header is the length of the compressed body served, and a
\* request without accept-encoding gets no content-encoding and, when
\* answered 200, the whole uncompressed file.
C11_CompressedLengthIsServedSize ==
    /\ (Called /\ Precompressed(sres.res))
        => /\ HeadersGet(sres.res.headers, "content-encoding") \in {<<"gzip">>, <<"br">>}
           /\ HeadersGet(sres.res.headers, "content-length")
                  = Str(Len(sres.res.body[1]))
    /\ \A f \in Files :
        (/\ Names(f) /\ GetOrHead
         /\ ~HeadersHas(headers, "accept-encoding")
         /\ sres.res.kind = "response")
        => /\ ~HeadersHas(sres.res.headers, "content-encoding")
           /\ sres.res.status = 200 => sres.res.body = <<FileBytes(f.size)>>

\* C15: a GET/HEAD request for an existing file whose if-none-match header
\* equals the file's etag W/{size}-{mtimeMs} is answered 304 with no body.
C15_IfNoneMatchIsNotModified ==
    \A f \in Files :
        (/\ Names(f) /\ GetOrHead
         /\ HeadersGet(headers, "if-none-match") = Etag(f))
        => /\ sres.res.kind = "response"
           /\ sres.res.status = 304
           /\ sres.res.body = Null

(***************************************************************************)
(* base64.  A base64 string is the sequence of its symbols' values 0..63,  *)
(* with 64 for the padding character "=".                                  *)
(***************************************************************************)
Pad == 64

\* Buffer.from(bytes).toString('base64')
RECURSIVE Base64Encode(_)
Base64Encode(b) ==
    IF Len(b) = 0 THEN <<>>
    ELSE IF Len(b) = 1
    THEN <<b[1] \div 4, (b[1] % 4) * 16, Pad, Pad>>
    ELSE IF Len(b) = 2
    THEN <<b[1] \div 4, (b[1] % 4) * 16 + (b[2] \div 16), (b[2] % 16) * 4, Pad>>
    ELSE <<b[1] \div 4, (b[1] % 4) * 16 + (b[2] \div 16),
           (b[2] % 16) * 4 + (b[3] \div 64), b[3] % 64>>
         \o Base64Encode(SubSeq(b, 4, Len(b)))

\* Buffer.from(str, 'base64') on a padded base64 string
RECURSIVE Base64Decode(_)
Base64Decode(str) ==
    IF Len(str) < 4 THEN <<>>
    ELSE LET b1 == str[1] * 4 + (str[2] \div 16)
             b2 == (str[2] % 16) * 16 + (str[3] \div 4)
             b3 == (str[3] % 4) * 64 + str[4]
         IN  IF str[3] = Pad THEN <<b1>>
             ELSE IF str[4] = Pad THEN <<b1, b2>>
             ELSE <<b1, b2, b3>> \o Base64Decode(SubSeq(str, 5, Len(str)))

(***************************************************************************)
(* handle(): the 'line' handler                                            *)
(***************************************************************************)
MaxHeaderLines == 1 \* most inbound header commands appended to the request
MaxData == 1        \* most inbound data commands written to the body stream
MaxPromises == 2    \* most promises registered through waitUntil

InHeaders == {<<"range", <<"bytes=", "-", "2">> >>}

InCommands ==
    {[cmd |-> "header", key |-> h[1], value |-> h[2]] : h \in InHeaders}
    \cup {[cmd |-> "data", payload |-> Base64Encode(<<104, 105>>)]}
    \cup {[cmd |-> c] : c \in {"start-body", "end-body", "abort", "ping"}}

\* A variant that offers the client directory whatever options.static says.
ResolversIgnoringStatic(opts) == <<"client", "prerendered", "framework">>

\* the candidates serve() hands to firstResolve, undefined entries skipped
Resolvers(opts) ==
    (IF opts.static THEN <<"client">> ELSE <<>>) \o <<"prerendered", "framework">>

\* calling the static resolver named c
CallStatic(c, rq, opts) ==
    IF c = "client" THEN serveStatic(rq, opts, clientDir, TRUE)
    ELSE serveStatic(rq, opts, prerenderedDir, FALSE)

\* A variant in which start-body does not call serve().
ServeStartDeferred(rq) == UNCHANGED dispVars

\* serve(req, options) up to its first await: the first resolver is called
\* and its result awaited
ServeStart(rq) ==
    LET c == Resolvers(options)[1]
    IN  /\ dpc' = "await"
        /\ cand' = c
        /\ cres' = CallStatic(c, rq, options)
        /\ tried' = <<c>>
        /\ UNCHANGED clientAddr

\* A variant in which commands are still handled after an abort.
BodyOpenAlways == TRUE

\* abort.abort(): abort.signal.aborted from then on
AbortedAfterAbort == TRUE

\* else if (!abort.signal.aborted)
BodyOpen == ~aborted

\* A variant in which the header-phase switch is entered for every line.
AwaitingHeadersAlways == TRUE

\* if (!bodyStart)
AwaitingHeaders == ~bodyStart

\* pipe.write(chunk): appended, unless the stream was already ended
PipeWrite(chunk) ==
    IF pipe.ended THEN [pipe EXCEPT !.lateWrites = @ + 1]
    ELSE [pipe EXCEPT !.chunks = Append(@, chunk)]

\* pipe.end()
PipeEnd == [pipe EXCEPT !.ended = TRUE]

\* readline.on('line', ...): one inbound command
Line(c) ==
    /\ phase # "exited"
    /\ (c.cmd = "header" /\ AwaitingHeaders) => nHeaders < MaxHeaderLines
    /\ (c.cmd = "data" /\ bodyStart /\ BodyOpen)
           => Len(pipe.chunks) + pipe.lateWrites < MaxData
    /\ nHeaders' = IF c.cmd = "header" /\ AwaitingHeaders THEN nHeaders + 1 ELSE nHeaders
    /\ served' = IF c.cmd = "start-body" /\ AwaitingHeaders THEN served + 1 ELSE served
    /\ strayed' = (strayed \/ (bodyStart /\ c.cmd \in {"header", "start-body"}))
    /\ seenEnd' = (seenEnd \/ c.cmd = "end-body")
    /\ seenAbort' = IF c.cmd = "abort" /\ ~seenEnd
                    THEN seenAbort \cup {IF bodyStart THEN "body" ELSE "headers"}
                    ELSE seenAbort
    /\ lateData' = IF c.cmd = "data"
                   THEN [offered |-> lateData.offered \/ "body" \in seenAbort,
                         writtenAny |-> lateData.writtenAny
                             \/ (seenAbort # {} /\ bodyStart /\ BodyOpen),
                         writtenBody |-> lateData.writtenBody
                             \/ ("body" \in seenAbort /\ bodyStart /\ BodyOpen)]
                   ELSE lateData
    /\ IF AwaitingHeaders
       THEN IF c.cmd = "header"
            THEN /\ headers' = HeadersAppend(headers, c.key, c.value)
                 /\ UNCHANGED <<bodyStart, aborted, pipe, req, dispVars>>
            ELSE IF c.cmd = "start-body"
            THEN /\ req' = <<[method |-> options.method, headers |-> headers]>>
                 /\ bodyStart' = TRUE
                 /\ ServeStart([method |-> options.method, headers |-> headers])
                 /\ UNCHANGED <<headers, aborted, pipe>>
            ELSE UNCHANGED <<headers, bodyStart, aborted, pipe, req, dispVars>>
       ELSE IF BodyOpen
       THEN IF c.cmd = "data"
            THEN /\ pipe' = PipeWrite(Base64Decode(c.payload))
                 /\ UNCHANGED <<headers, bodyStart, aborted, req, dispVars>>
            ELSE IF c.cmd = "end-body"
            THEN /\ pipe' = PipeEnd
                 /\ UNCHANGED <<headers, bodyStart, aborted, req, dispVars>>
            ELSE IF c.cmd = "abort"
            THEN /\ pipe' = PipeEnd
                 /\ aborted' = AbortedAfterAbort
                 /\ UNCHANGED <<headers, bodyStart, req, dispVars>>
            ELSE UNCHANGED <<headers, bodyStart, aborted, pipe, req, dispVars>>
       ELSE UNCHANGED <<headers, bodyStart, aborted, pipe, req, dispVars>>
    /\ UNCHANGED <<rlVars, options, sres, outVars, lifeVars>>

OnLine == \E c \in InCommands : Line(c)

(***************************************************************************)
(* writeResponse() / writeOut()                                            *)
(***************************************************************************)
\* the names Headers iterates, in its (sorted) iteration order
HeaderOrder == <<"accept-range", "cache-control", "content-encoding", "content-length",
                 "content-range", "content-type", "etag", "last-modified", "location",
                 "x-powered-by">>

\* res.headers.forEach((val, key) => headers.push(key, val))
RECURSIVE FlattenFrom(_, _)
FlattenFrom(h, i) ==
    IF i > Len(HeaderOrder) THEN <<>>
    ELSE (IF HeaderOrder[i] \in DOMAIN h
          THEN <<<<HeaderOrder[i]>>, h[HeaderOrder[i]]>> ELSE <<>>)
         \o FlattenFrom(h, i + 1)

FlatHeaders(h) == FlattenFrom(h, 1)

\* req.method === 'HEAD'
ignoreBody == req # <<>> /\ req[1].method = "HEAD"

\* A variant that streams the body of a HEAD response too.
NoBodyIgnoringHead(r) == r.body = Null

\* !res.body || ignoreBody
NoBody(r) == r.body = Null \/ ignoreBody

\* for (let i = 0; i < headers.length; i += 2)
HeaderStep == 2

\* A variant that encodes the chunk without its last byte.
EncodeChunkTruncated(value) == Base64Encode(SubSeq(value, 1, Len(value) - 1))

\* Buffer.from(read.value).toString('base64')
EncodeChunk(value) == Base64Encode(value)

\* writeOut(data): the line is handed to process.stdout.write
WriteOut(data) == out' = Append(out, data)

HeaderCmd(flat, i) == [cmd |-> "header", key |-> flat[i + 1], value |-> flat[i + 2]]

\* writeOut(['header', ...]) for index i, or writeOut(['start-body']) past the end
WriteHeaderOrStart(flat, i) ==
    IF i < Len(flat)
    THEN /\ WriteOut(HeaderCmd(flat, i))
         /\ wpc' = "header"
         /\ hidx' = i
    ELSE /\ WriteOut([cmd |-> "start-body"])
         /\ wpc' = "start-body"
         /\ hidx' = i

\* .then((res) => writeResponse(res, ...)): up to the first awaited write
StartWrite(r) ==
    /\ res' = r
    /\ WriteOut([cmd |-> "status", code |-> r.status, text |-> r.statusText])
    /\ wpc' = "status"
    /\ remaining' = IF r.body = Null THEN <<>> ELSE r.body[1]
    /\ UNCHANGED <<hidx, acked>>

(***************************************************************************)
(* the finally block: Promise.allSettled(waits), then process.exit(0)      *)
(***************************************************************************)
\* A variant in which Promise.allSettled never resolves.
DrainedNever(awaited, done) == FALSE

\* Promise.allSettled(awaited) has resolved
Drained(awaited, done) == awaited \subseteq done

\* .finally(async () => { await Promise.allSettled(waits); process.exit(0) })
Finally ==
    /\ snapshot' = waits
    /\ IF Drained(waits, settled)
       THEN phase' = "exited" /\ exitCode' = 0 /\ exits' = exits + 1
       ELSE phase' = "draining" /\ UNCHANGED <<exitCode, exits>>
    /\ UNCHANGED <<waits, settled>>

\* A variant that swallows the error without logging it.
CaughtSilently == UNCHANGED logged

\* .catch((err) => { console.error(err) })
Caught == logged' = [logged EXCEPT !.errors = @ + 1]

(***************************************************************************)
(* serve() / firstResolve() after the first await                          *)
(***************************************************************************)
\* new Response('404 Not Found', ...); the body text is kept to its first
\* three bytes
NotFound ==
    [kind |-> "response", status |-> 404, statusText |-> <<>>,
     headers |-> HeadersSet(<<>>, "content-type", <<"text/plain">>),
     body |-> <<<<52, 48, 52>>>>]

FrameworkBodies ==
    {<<<<>>>>, <<<<77, 0, 255, 16>>>>}

\* what server.respond may resolve with
FrameworkResponses ==
    {[kind |-> "response", status |-> 200, statusText |-> <<"OK">>,
      headers |-> HeadersSet(HeadersSet(<<>>, "content-type", <<"text/html">>),
                             "x-powered-by", <<"kit">>),
      body |-> b] : b \in FrameworkBodies}
    \cup {[kind |-> "response", status |-> 500, statusText |-> <<"Internal Error">>,
           headers |-> <<>>, body |-> Null]}

\* the continuation of `await resolvers[i]()` for a static candidate
DispatchContinue ==
    /\ phase # "exited"
    /\ dpc = "await"
    /\ cres.kind # "throw"
    /\ IF cres.kind = "response"
       THEN /\ dpc' = "resolved"
            /\ StartWrite(cres)
            /\ UNCHANGED <<cand, cres, tried>>
       ELSE LET next == IF cand = "client" THEN "prerendered" ELSE "framework"
            IN  /\ cand' = next
                /\ tried' = Append(tried, next)
                /\ IF next = "framework"
                   THEN dpc' = "init" /\ cres' = [kind |-> "none"]
                   ELSE dpc' = "await" /\ cres' = CallStatic(next, req[1], options)
                /\ UNCHANGED outVars
    /\ UNCHANGED <<rlVars, reqVars, sres, inVars, clientAddr, lifeVars>>

\* await server.init(...) resolves; server.respond is called
InitDone ==
    /\ phase # "exited"
    /\ dpc = "init"
    /\ dpc' = "respond"
    /\ UNCHANGED <<rlVars, reqVars, sres, inVars, cand, cres, tried, clientAddr,
                   outVars, lifeVars>>

\* a static resolver threw, or server.init or server.respond rejects:
\* serve() rejects, .catch, .finally
DispatchFail ==
    /\ phase # "exited"
    /\ dpc \in {"init", "respond"} \/ (dpc = "await" /\ cres.kind = "throw")
    /\ dpc' = "rejected"
    /\ clientAddr' = NotAsked
    /\ Caught
    /\ Finally
    /\ UNCHANGED <<rlVars, reqVars, sres, inVars, cand, cres, tried, outVars>>

\* server.respond resolves; firstResolve returns it, or the 404 when falsy
RespondResolve ==
    /\ phase # "exited"
    /\ dpc = "respond"
    /\ \E r \in FrameworkResponses \cup {Undefined} :
          /\ cres' = r
          /\ StartWrite(IF r.kind = "response" THEN r ELSE NotFound)
    /\ dpc' = "resolved"
    /\ clientAddr' = NotAsked
    /\ UNCHANGED <<rlVars, reqVars, sres, inVars, cand, tried, lifeVars>>

\* the framework calls getClientAddress()
GetClientAddress ==
    /\ phase # "exited"
    /\ dpc = "respond"
    /\ ~clientAddr.asked
    /\ clientAddr' = IF options.clientIP # <<>>
                     THEN [asked |-> TRUE, threw |-> FALSE, value |-> options.clientIP]
                     ELSE [asked |-> TRUE, threw |-> TRUE, value |-> <<>>]
    /\ UNCHANGED <<rlVars, reqVars, sres, inVars, dpc, cand, cres, tried, outVars, lifeVars>>

\* process.stdout.write calls back without an error: writeResponse goes on
WriteAck ==
    /\ phase # "exited"
    /\ wpc \in {"status", "header", "start-body", "data", "end-body"}
    /\ acked' = acked + 1
    /\ IF wpc = "status"
       THEN WriteHeaderOrStart(FlatHeaders(res.headers), 0) /\ UNCHANGED lifeVars
       ELSE IF wpc = "header"
       THEN WriteHeaderOrStart(FlatHeaders(res.headers), hidx + HeaderStep)
            /\ UNCHANGED lifeVars
       ELSE IF wpc = "start-body"
       THEN /\ IF NoBody(res)
               THEN WriteOut([cmd |-> "end-body"]) /\ wpc' = "end-body"
               ELSE wpc' = "reading" /\ UNCHANGED out
            /\ UNCHANGED <<hidx, lifeVars>>
       ELSE IF wpc = "data"
       THEN wpc' = "reading" /\ UNCHANGED <<hidx, out, lifeVars>>
       ELSE /\ wpc' = "done"
            /\ Finally
            /\ UNCHANGED <<hidx, out, logged>>
    /\ UNCHANGED <<rlVars, reqVars, sres, inVars, dispVars, res, remaining>>

\* process.stdout.write calls back with an error: writeOut rejects
WriteFail ==
    /\ phase # "exited"
    /\ wpc \in {"status", "header", "start-body", "data", "end-body"}
    /\ wpc' = "failed"
    /\ Caught
    /\ Finally
    /\ UNCHANGED <<rlVars, reqVars, sres, inVars, dispVars, res, hidx, out, acked,
                   remaining>>

\* A variant that reads the next chunk while the last write is still pending.
ReadChunkEager ==
    /\ phase # "exited"
    /\ wpc \in {"reading", "data"}
    /\ \E n \in 1..Len(remaining) :
          /\ WriteOut([cmd |-> "data", payload |-> EncodeChunk(SubSeq(remaining, 1, n))])
          /\ remaining' = SubSeq(remaining, n + 1, Len(remaining))
    /\ wpc' = "data"
    /\ UNCHANGED <<rlVars, reqVars, sres, inVars, dispVars, res, hidx, acked, lifeVars>>

\* reader.read() resolves with a chunk: any non-empty prefix of what is left
ReadChunk ==
    /\ phase # "exited"
    /\ wpc = "reading"
    /\ \E n \in 1..Len(remaining) :
          /\ WriteOut([cmd |-> "data", payload |-> EncodeChunk(SubSeq(remaining, 1, n))])
          /\ remaining' = SubSeq(remaining, n + 1, Len(remaining))
    /\ wpc' = "data"
    /\ UNCHANGED <<rlVars, reqVars, sres, inVars, dispVars, res, hidx, acked, lifeVars>>

\* reader.read() resolves with done
ReadDone ==
    /\ phase # "exited"
    /\ wpc = "reading"
    /\ remaining = <<>>
    /\ WriteOut([cmd |-> "end-body"])
    /\ wpc' = "end-body"
    /\ UNCHANGED <<rlVars, reqVars, sres, inVars, dispVars, res, hidx, acked, remaining,
                   lifeVars>>

\* reader.read() rejects: the body stream errored
ReadFail ==
    /\ phase # "exited"
    /\ wpc = "reading"
    /\ wpc' = "failed"
    /\ Caught
    /\ Finally
    /\ UNCHANGED <<rlVars, reqVars, sres, inVars, dispVars, res, hidx, out, acked,
                   remaining>>

(***************************************************************************)
(* waitUntil and the registered promises                                   *)
(***************************************************************************)
\* code of the application can run: the framework handler, the pull of the
\* response body stream, or a background task that has not finished
CodeRunning ==
    \/ dpc = "respond"
    \/ (wpc = "reading" /\ cand = "framework")
    \/ waits \ settled # {}

\* waitUntil(promise): waits.add(promise.catch(console.error))
Register ==
    /\ phase # "exited"
    /\ CodeRunning
    /\ Cardinality(waits) < MaxPromises
    /\ waits' = waits \cup {Cardinality(waits) + 1}
    /\ UNCHANGED <<rlVars, reqVars, sres, inVars, dispVars, outVars,
                   settled, snapshot, phase, logged, exitCode, exits>>

\* a registered promise settles; a rejection goes to console.error; the
\* pending Promise.allSettled may resolve, and then process.exit(0) runs
Settle(p, rejected) ==
    /\ phase # "exited"
    /\ p \in waits \ settled
    /\ settled' = settled \cup {p}
    /\ logged' = IF rejected THEN [logged EXCEPT !.rejections = @ \cup {p}] ELSE logged
    /\ IF phase = "draining" /\ Drained(snapshot, settled \cup {p})
       THEN phase' = "exited" /\ exitCode' = 0 /\ exits' = exits + 1
       ELSE UNCHANGED <<phase, exitCode, exits>>
    /\ UNCHANGED <<rlVars, reqVars, sres, inVars, dispVars, outVars, waits, snapshot>>

OnSettle == \E p \in waits : \E rejected \in BOOLEAN : Settle(p, rejected)

(***************************************************************************)
(* The worker process: cli render -> handle(options)                       *)
(***************************************************************************)
\* opts.clientIp as cac gives it: <<>> when --client-ip is absent
CliClientIps == {<<>>, <<<<"203.0.113.9">>>>}

\* `${opts.clientIp}`
TemplateLiteral(v) == IF v = <<>> THEN <<"undefined">> ELSE v[1]

HandledMethods == {"GET", "HEAD"}

HandledPathnames == {<<"/", "foo">>, <<"/", "about">>, <<"/", "missing">>, <<"/", "%">>}

Init ==
    /\ RlInit
    /\ \E ip \in CliClientIps :
          options \in [method : HandledMethods,
                       url : [pathname : HandledPathnames, search : {<<>>}],
                       clientIP : {TemplateLiteral(ip)},
                       static : BOOLEAN]
    /\ headers = <<>>
    /\ sres = NoResult
    /\ ProcInit

Next ==
    \/ OnLine
    \/ DispatchContinue
    \/ InitDone
    \/ DispatchFail
    \/ RespondResolve
    \/ GetClientAddress
    \/ WriteAck
    \/ WriteFail
    \/ ReadChunk
    \/ ReadDone
    \/ ReadFail
    \/ Register
    \/ OnSettle

Spec == Init /\ [][Next]_vars

\* One invocation, `render --method GET --client-ip 203.0.113.9 --no-static`,
\* under the conditions a terminating run needs: every awaited promise of
\* the dispatcher settles, every stdout write is called back, every read of
\* the response body returns, every registered promise settles.  Nothing is
\* assumed about what arrives on stdin.
LivePathnames == {<<"/", "about">>, <<"/", "missing">>, <<"/", "%">>}

LiveInit ==
    /\ RlInit
    /\ options \in [method : {"GET"},
                    url : [pathname : LivePathnames, search : {<<>>}],
                    clientIP : {TemplateLiteral(<<<<"203.0.113.9">>>>)},
                    static : {FALSE}]
    /\ headers = <<>>
    /\ sres = NoResult
    /\ ProcInit

Fairness ==
    /\ WF_vars(DispatchContinue)
    /\ WF_vars(InitDone)
    /\ WF_vars(RespondResolve \/ DispatchFail)
    /\ WF_vars(WriteAck)
    /\ WF_vars(ReadChunk \/ ReadDone)
    /\ WF_vars(OnSettle)

SpecLive == LiveInit /\ [][Next]_vars /\ Fairness

(***************************************************************************)
(* Properties of the worker process                                        *)
(***************************************************************************)
\* C1 as claimed: once an abort command has arrived before any end-body
\* (before or after start-body), the cancellation signal is set, and the
\* handler writes no data command received after it to the body stream.
C1_AbortAlwaysCancels ==
    seenAbort # {} => (aborted /\ ~lateData.writtenAny)

\* C1 amended: once an abort command has arrived after start-body and before
\* any end-body, the cancellation signal is set from then on and the handler
\* writes no data command received after it to the body stream.
C1_AbortInBodyCancels ==
    "body" \in seenAbort => (aborted /\ ~lateData.writtenBody)

\* C1 witness: an abort arrived in the body phase, after a data chunk had been
\* written, and a data command arrived after it.
C1_Witness ==
    /\ "body" \in seenAbort
    /\ lateData.offered
    /\ Len(pipe.chunks) = 1
    /\ aborted

ResponseResolved == dpc = "resolved"

Serialized == wpc = "done" /\ out[Len(out)].cmd = "end-body"

\* C2: the process has not exited while a promise registered through
\* waitUntil is unsettled, nor (when a response was resolved and no write or
\* read failed) before the outbound end-body was written; the exit code is 0
\* whatever the promises did, and every rejection was logged.
C2_ExitOnlyAfterDrain ==
    phase = "exited" =>
        /\ waits \subseteq settled
        /\ (ResponseResolved /\ wpc # "failed") => Serialized
        /\ exitCode = 0
        /\ logged.rejections \subseteq settled

OutCmds == {out[i].cmd : i \in 1..Len(out)}

Follows(a, b) ==
    \/ a = "status" /\ b \in {"header", "start-body"}
    \/ a = "header" /\ b \in {"header", "start-body"}
    \/ a = "start-body" /\ b \in {"data", "end-body"}
    \/ a = "data" /\ b \in {"data", "end-body"}

\* C3: what writeResponse has written is a prefix of: one status, the header
\* commands, one start-body, data commands, one end-body; the whole of it
\* once writeResponse has returned; without any data command when the
\* response has no body or the request is a HEAD.
C3_OutboundOrder ==
    /\ Len(out) >= 1 => out[1].cmd = "status"
    /\ \A i \in 1..(Len(out) - 1) : Follows(out[i].cmd, out[i + 1].cmd)
    /\ wpc = "done" => out[Len(out)].cmd = "end-body"
    /\ (ResponseResolved /\ (res.body = Null \/ req[1].method = "HEAD"))
           => "data" \notin OutCmds

\* C3 witness: a response with several headers and a body in several chunks
\* has been written to the end, and so has a HEAD response with a body.
C3_Witness ==
    /\ wpc = "done"
    /\ \/ /\ Cardinality({i \in 1..Len(out) : out[i].cmd = "header"}) >= 2
          /\ Cardinality({i \in 1..Len(out) : out[i].cmd = "data"}) >= 2
       \/ /\ req[1].method = "HEAD"
          /\ res.body # Null
          /\ res.body[1] # <<>>

\* the response a reader of the outbound commands reconstructs
RECURSIVE DecodedHeaders(_)
DecodedHeaders(cmds) ==
    IF cmds = <<>> THEN <<>>
    ELSE (IF cmds[1].cmd = "header" THEN <<<<cmds[1].key, cmds[1].value>>>> ELSE <<>>)
         \o DecodedHeaders(Tail(cmds))

RECURSIVE DecodedBody(_)
DecodedBody(cmds) ==
    IF cmds = <<>> THEN <<>>
    ELSE (IF cmds[1].cmd = "data" THEN Base64Decode(cmds[1].payload) ELSE <<>>)
         \o DecodedBody(Tail(cmds))

\* the header entries of a response, in its iteration order
RECURSIVE EntriesFrom(_, _)
EntriesFrom(h, i) ==
    IF i > Len(HeaderOrder) THEN <<>>
    ELSE (IF HeaderOrder[i] \in DOMAIN h
          THEN <<<<<<HeaderOrder[i]>>, h[HeaderOrder[i]]>>>> ELSE <<>>)
         \o EntriesFrom(h, i + 1)

BodyBytes(r) == IF r.body = Null THEN <<>> ELSE r.body[1]

\* C4: once a response has been written with the body not suppressed,
\* decoding the commands written gives back its status and status text, its
\* header entries in order, and its body bytes, however the body was chunked.
C4_RoundTrip ==
    (wpc = "done" /\ req[1].method # "HEAD") =>
        /\ out[1].cmd = "status"
        /\ out[1].code = res.status
        /\ out[1].text = res.statusText
        /\ DecodedHeaders(out) = EntriesFrom(res.headers, 1)
        /\ DecodedBody(out) = BodyBytes(res)

\* C4 witness: a four-byte body was written as two chunks, one of them padded.
C4_Witness ==
    /\ wpc = "done"
    /\ req[1].method # "HEAD"
    /\ Len(BodyBytes(res)) = 4
    /\ Cardinality({i \in 1..Len(out) : out[i].cmd = "data"}) = 2
    /\ \E i \in 1..Len(out) : out[i].cmd = "data" /\ out[i].payload[4] = Pad

\* C12: when the process has exited after writing a whole response the exit
\* code is 0, and when it has exited because serve() rejected before any
\* response was written the exit code is not 0.
C12_ExitCodes ==
    phase = "exited" =>
        /\ Serialized => exitCode = 0
        /\ dpc = "rejected" => exitCode # 0

IsPrefix(a, b) == Len(a) <= Len(b) /\ SubSeq(b, 1, Len(a)) = a

\* C13: the candidates invoked so far are an initial part of client (only
\* with options.static), prerendered, framework; whenever a candidate has
\* just been invoked, every candidate before it returned no match, so
\* server.init/respond run only with all static candidates unmatched; the
\* response is the first match, or the plain-text 404 when the last
\* candidate returned nothing.
C13_DispatchOrder ==
    /\ IsPrefix(tried, Resolvers(options))
    /\ ~options.static => \A i \in 1..Len(tried) : tried[i] # "client"
    /\ tried # <<>> => cand = tried[Len(tried)]
    /\ dpc \in {"await", "init"} =>
           \A i \in 1..(Len(tried) - 1) :
               CallStatic(tried[i], req[1], options) = Undefined
    /\ dpc = "await" => cres = CallStatic(cand, req[1], options)
    /\ dpc \in {"init", "respond"} => cand = "framework"
    /\ dpc = "resolved" =>
           /\ res = (IF cres.kind = "response" THEN cres ELSE NotFound)
           /\ cres.kind # "response" => tried = Resolvers(options)

\* C13 witness: with static serving on, all three candidates were tried in
\* order, none matched, and the 404 is being written.
C13_Witness ==
    /\ options.static
    /\ dpc = "resolved"
    /\ tried = <<"client", "prerendered", "framework">>
    /\ cres = Undefined
    /\ res.status = 404
    /\ HeadersGet(res.headers, "content-type") = <<"text/plain">>

\* --client-ip was not given on the command line
NoClientIp == options.clientIP = TemplateLiteral(<<>>)

\* C14: when getClientAddress() has been called, it threw if no client IP
\* was given on the command line, and returned the given value otherwise.
C14_ClientAddressResolver ==
    clientAddr.asked =>
        IF NoClientIp
        THEN clientAddr.threw
        ELSE ~clientAddr.threw /\ clientAddr.value = options.clientIP

\* C16 as claimed: serve() has been called only if an inbound end-body has
\* been received, and has been called once end-body followed start-body.
C16_DispatchAtEndBody ==
    /\ served > 0 => seenEnd
    /\ (bodyStart /\ pipe.ended /\ ~aborted) => served > 0

\* C16 amended: serve() has been called exactly when start-body has been
\* handled, whether or not an end-body has been received.
C16_DispatchAtStartBody ==
    /\ served > 0 <=> bodyStart
    /\ dpc # "idle" <=> bodyStart
    /\ bodyStart <=> tried # <<>>
    /\ bodyStart <=> req # <<>>

\* C16 witness: a whole response has been written though no end-body (and
\* no abort) was ever received.
C16_Witness ==
    /\ bodyStart /\ ~seenEnd /\ seenAbort = {} /\ ~pipe.ended
    /\ served = 1
    /\ wpc = "done"

StatusCount == Cardinality({i \in 1..Len(out) : out[i].cmd = "status"})

\* C17: whatever commands arrive, serve() is called at most once, at most
\* one status command is written, process.exit is called at most once, and
\* the request's headers are those appended before the first start-body.
C17_AtMostOnce ==
    /\ served <= 1
    /\ StatusCount <= 1
    /\ exits <= 1
    /\ Len(req) <= 1
    /\ req # <<>> => req[1].headers = headers
    /\ nHeaders = 0 <=> headers = <<>>

\* C17 witness: a header or a second start-body arrived after start-body,
\* and the one response has been written and the process has exited.
C17_Witness ==
    /\ strayed
    /\ served = 1
    /\ StatusCount = 1
    /\ wpc = "done"
    /\ exits = 1

DataCount == Cardinality({i \in 1..Len(out) : out[i].cmd = "data"})

\* C18: at most one command written to stdout awaits its write callback, and
\* writeResponse waits for (or issues) a read of the response body only when
\* every command written so far has been called back.
C18_Backpressure ==
    /\ Len(out) - acked \in {0, 1}
    /\ wpc = "reading" => acked = Len(out)
    /\ wpc \in {"status", "header", "start-body", "data", "end-body"}
           => acked = Len(out) - 1

\* C18 witness: a second chunk has been read and written while more of the
\* body is left, the first chunk's write having been called back.
C18_Witness ==
    /\ wpc = "data"
    /\ DataCount = 2
    /\ remaining # <<>>
    /\ acked = Len(out) - 1

\* C19: when serve() has rejected, the error has been logged and nothing
\* has been, or will be, written to stdout.
C19_DispatchFailureWritesNothing ==
    dpc = "rejected" =>
        /\ logged.errors >= 1
        /\ out = <<>>
        /\ wpc = "idle"

\* C19 witness: the framework handler rejected, and the process has exited.
C19_Witness ==
    /\ dpc = "rejected"
    /\ cand = "framework"
    /\ phase = "exited"
    /\ logged.errors = 1

\* C20: once start-body has been handled, the process eventually exits,
\* whether the response is written, serve() rejects, or a write or read fails.
C20_EventuallyExits == bodyStart ~> (phase = "exited")

\* C20 witness: the process has exited after a write or a read failed while
\* a promise registered through waitUntil had to be awaited.
C20_Witness ==
    /\ phase = "exited"
    /\ wpc = "failed"
    /\ snapshot # {}

\* C21: once the request body stream has been closed, no step appends bytes
\* to it or reopens it, and when it was end-body that closed it (the signal
\* is not aborted), no step aborts the request's cancellation signal.
C21_ClosedStreamIsFinal ==
    [][(bodyStart /\ pipe.ended) =>
          /\ pipe'.chunks = pipe.chunks
          /\ pipe'.ended
          /\ (~aborted => ~aborted')]_vars

\* C22: the process has not exited while a promise registered through
\* waitUntil after Promise.allSettled(waits) was called is unsettled.
C22_LatePromisesAwaited ==
    phase = "exited" => (waits \ snapshot) \subseteq settled

====
